---- MODULE Spec2Model ----
(***************************************************************************)
(* Model of media/libstagefright/codec2/vndk/C2Buffer.cpp: the ION linear  *)
(* allocator, the ION linear allocation (map / unmap of one buffer), the   *)
(* 1D blocks (C2LinearBlock, C2ConstLinearBlock) and their views.          *)
(*                                                                         *)
(* The kernel side (ion driver, mmap / munmap, file descriptors) is the    *)
(* external collaborator: it is modelled by the operators of the section   *)
(* "backing store", every call of which may fail the way the real call     *)
(* may.  Addresses are integers, NULL is 0; the address space is a small   *)
(* number of mapping slots of Stride bytes each, made of pages.            *)
(***************************************************************************)
EXTENDS Integers, Sequences, FiniteSets, TLC

(* ------------------------------ bounds --------------------------------- *)

\* page granularity of the model (the platform's PAGE_SIZE, scaled down)
PAGE_SIZE == 2
\* largest capacity a client asks for
MaxCapacity == 2
\* allocation objects alive at the same time
MaxAllocs == 2
\* block objects alive at the same time
MaxBlocks == 2
\* view objects alive at the same time
MaxViews == 1
\* mapping slots of the process address space
NSlots == 2
\* entries of an errno table
MaxTable == 3

(* ----------------------------- constants ------------------------------- *)

EPERM == 1
ENOENT == 2
ENOMEM == 12
EACCES == 13
ENODEV == 19
EINVAL == 22

\* C2HandleIon: version, numFds, numInts, kMagic ('ion1')
HandleVersion == 24
HandleNumFds == 2
HandleNumInts == 1
kMagic == 1768910385

NULL == 0
NoFd == -1

C2Errors ==
    {"C2_OK", "C2_BAD_VALUE", "C2_NO_MEMORY", "C2_NO_PERMISSION",
     "C2_TIMED_OUT", "C2_UNSUPPORTED", "C2_CORRUPTED"}

AllocIds == 1 .. MaxAllocs
BlockIds == 1 .. MaxBlocks
Slots == 1 .. NSlots
\* descriptor numbers of the process: the driver and one per allocation
FdNums == 1 .. MaxAllocs + 1
\* ion_user_handle_t values the driver hands out
HandleIds == 1 .. MaxAllocs

PageUp(n) == ((n + PAGE_SIZE - 1) \div PAGE_SIZE) * PAGE_SIZE
\* bytes of one mapping slot: room for the largest mapping, whole pages
Stride == PageUp(MaxCapacity + PAGE_SIZE)
SlotPages == Stride \div PAGE_SIZE
SlotAddr(s) == s * Stride
\* bytes of one ion buffer of the model
BufBytes == PageUp(MaxCapacity)

NoAlloc == [kind |-> "none"]
NoBlock == [kind |-> "none"]
NoPage == [buf |-> 0]
\* what a descriptor number refers to: nothing, a buffer (its handle), the driver
FdFree == 0
FdIonDev == MaxAllocs + 1
\* a page of a buffer whose last handle was freed
Orphan == -1

VARIABLES
    mInit,      \* C2AllocatorIon::mInit
    mIonFd,     \* C2AllocatorIon::mIonFd
    allocs,     \* the C2AllocationIon objects (with their Impl)
    blocks,     \* the block objects (with their Impl)
    views,      \* the views handed out by map() and subView()
    fds,        \* kernel: descriptor number -> what it refers to
    ionRefs,    \* kernel: ion handle -> reference count (0: free)
    ionLen,     \* kernel: ion handle -> length of its buffer
    pages,      \* kernel: page of the address space -> what it maps
    mem,        \* kernel: ion handle -> bytes of its buffer
    lastCall    \* the last call that made or let go of an object, or that
                \* mapped or unmapped an allocation directly: what was asked
                \* and what it returned

vars == <<mInit, mIonFd, allocs, blocks, views, fds, ionRefs, ionLen, pages, mem, lastCall>>

(* --------------------------- errno mapping ----------------------------- *)

c2_errno2error_impl(N) ==
    CASE N = 0 -> "C2_OK"
      [] N = EINVAL -> "C2_BAD_VALUE"
      [] N = EACCES -> "C2_NO_PERMISSION"
      [] N = EPERM -> "C2_NO_PERMISSION"
      [] N = ENOMEM -> "C2_NO_MEMORY"

\* only the first entry of the table is looked at
c2_map_errno_HeadOnly(table, result) ==
    IF table # <<>> /\ result = Head(table)
    THEN c2_errno2error_impl(Head(table))
    ELSE IF result = 0 THEN "C2_OK" ELSE "C2_CORRUPTED"

\* c2_map_errno<N...>(result): the table N... as a sequence
RECURSIVE c2_map_errno(_, _)
c2_map_errno(table, result) ==
    IF table = <<>>
    THEN IF result = 0 THEN "C2_OK" ELSE "C2_CORRUPTED"
    ELSE IF result = Head(table)
         THEN c2_errno2error_impl(Head(table))
         ELSE c2_map_errno(Tail(table), result)

(* ------------------------------ handle --------------------------------- *)

cHeader == [version |-> HandleVersion, numFds |-> HandleNumFds, numInts |-> HandleNumInts]

C2HandleIon(ionFd, buffer) ==
    [header |-> cHeader, mIon |-> ionFd, mBuffer |-> buffer, mMagic |-> kMagic]

NullHandle == [header |-> "null"]

\* the header is not compared
isValid_MagicOnly(o) ==
    IF o = NullHandle
    THEN FALSE
    ELSE o.mMagic = kMagic

\* C2HandleIon::isValid(o)
isValid(o) ==
    IF o = NullHandle \/ o.header # cHeader
    THEN FALSE
    ELSE o.mMagic = kMagic

(* --------------------------- backing store ----------------------------- *)

\* the page of the address space an address lies in
PageOf(addr) == <<addr \div Stride, (addr % Stride) \div PAGE_SIZE>>

PageIds == Slots \X (0 .. SlotPages - 1)

FreeSlots(pg) == {s \in Slots : \A k \in 0 .. SlotPages - 1 : pg[<<s, k>>] = NoPage}

\* the lowest free descriptor number (0: none)
FreeFd(fdt) ==
    IF \E f \in FdNums : fdt[f] = FdFree
    THEN CHOOSE f \in FdNums : fdt[f] = FdFree /\ \A g \in FdNums : fdt[g] = FdFree => f <= g
    ELSE 0

\* mmap(NULL, len, prot, flags, fd of buffer buf, off): the outcomes.
\* by: the allocation object the call is made for (bookkeeping only)
mmap(pg, len, prot, flags, buf, off, by) ==
    LET valid == len > 0 /\ off % PAGE_SIZE = 0 /\ off + len <= PageUp(ionLen[buf])
        npages == PageUp(len) \div PAGE_SIZE
        mapped(s) ==
            [p \in PageIds |->
                IF p[1] = s /\ p[2] < npages
                THEN [buf |-> buf, pos |-> off + p[2] * PAGE_SIZE,
                      prot |-> prot, flags |-> flags, by |-> by]
                ELSE pg[p]]
    IN  IF valid
        THEN {[errno |-> 0, addr |-> SlotAddr(s), pages |-> mapped(s)] : s \in FreeSlots(pg)}
             \cup {[errno |-> ENOMEM, addr |-> NULL, pages |-> pg]}
        ELSE {[errno |-> EINVAL, addr |-> NULL, pages |-> pg]}

\* munmap(addr, len): the return value and the pages afterwards
munmap(pg, addr, len) ==
    IF addr % PAGE_SIZE # 0 \/ len <= 0
    THEN [ret |-> -1, errno |-> EINVAL, pages |-> pg]
    ELSE [ret |-> 0, errno |-> 0,
          pages |-> [p \in PageIds |->
                        LET a == p[1] * Stride + p[2] * PAGE_SIZE
                        IN  IF a >= addr /\ a < addr + len THEN NoPage ELSE pg[p]]]

\* ion_map(fd, handle, length, prot, flags, offset, &ptr, &map_fd): the outcomes
ion_map(fdt, pg, handle, length, prot, flags, offset, by) ==
    IF handle \notin HandleIds \/ ionRefs[handle] = 0
    THEN {[ret |-> -EINVAL, ptr |-> NULL, fd |-> NoFd, pages |-> pg, fds |-> fdt]}
    ELSE IF FreeFd(fdt) = 0
    THEN {[ret |-> -ENOMEM, ptr |-> NULL, fd |-> NoFd, pages |-> pg, fds |-> fdt]}
    ELSE {IF m.errno = 0
          THEN [ret |-> 0, ptr |-> m.addr, fd |-> FreeFd(fdt), pages |-> m.pages,
                fds |-> [fdt EXCEPT ![FreeFd(fdt)] = handle]]
          ELSE [ret |-> -m.errno, ptr |-> NULL, fd |-> NoFd, pages |-> pg, fds |-> fdt]
          : m \in mmap(pg, length, prot, flags, handle, offset, by)}

\* the lowest free ion handle (0: none)
FreeHandle(refs) ==
    IF \E h \in HandleIds : refs[h] = 0
    THEN CHOOSE h \in HandleIds : refs[h] = 0 /\ \A g \in HandleIds : refs[g] = 0 => h <= g
    ELSE 0

\* ion_alloc(fd, len, align, heapMask, flags, &buffer): the outcomes
ion_alloc(refs, len) ==
    IF len = 0 \/ FreeHandle(refs) = 0
    THEN {[ret |-> -(IF len = 0 THEN EINVAL ELSE ENOMEM), buffer |-> -1]}
    ELSE {[ret |-> 0, buffer |-> FreeHandle(refs)]}
         \cup {[ret |-> -e, buffer |-> -1] : e \in {ENOMEM, EACCES, EINVAL, ENODEV}}

\* ion_import(fd, share_fd, &buffer): the outcomes.  share_fd must be a
\* descriptor of a buffer; the client's handle of that buffer is returned
\* and gains a reference.
ion_import(fdt, share_fd) ==
    IF share_fd \in FdNums /\ fdt[share_fd] \in HandleIds
    THEN {[ret |-> 0, buffer |-> fdt[share_fd]]}
         \cup {[ret |-> -e, buffer |-> -1] : e \in {ENOMEM, ENODEV}}
    ELSE {[ret |-> -EINVAL, buffer |-> -1]}

\* ion_free(fd, handle): the reference counts afterwards
ion_free(refs, handle) ==
    IF handle \in HandleIds /\ refs[handle] > 0
    THEN [refs EXCEPT ![handle] = @ - 1]
    ELSE refs

\* the pages once the buffers without a handle are gone
Orphaned(pg, refs) ==
    [p \in PageIds |->
        IF pg[p] # NoPage /\ pg[p].buf \in HandleIds /\ refs[pg[p].buf] = 0
        THEN [pg[p] EXCEPT !.buf = Orphan, !.by = 0]
        ELSE pg[p]]

(* ------------------------- C2AllocationIon ----------------------------- *)

\* C2MemoryUsage values the callers pass
kSoftwareRead == "kSoftwareRead"
kSoftwareWrite == "kSoftwareWrite"
\* a reader asks for what a writer asks for
UsageRead_ReadWrite == [mConsumer |-> {kSoftwareRead}, mProducer |-> {kSoftwareWrite}]

\* { C2MemoryUsage::kSoftwareRead, 0 }
UsageRead == [mConsumer |-> {kSoftwareRead}, mProducer |-> {}]
UsageReadWrite == [mConsumer |-> {kSoftwareRead}, mProducer |-> {kSoftwareWrite}]

\* What the members mMapAddr, mMapAlignmentBytes and mMapSize, which no
\* constructor initialises, can hold before the first map: zeroes, or what
\* an earlier object left in that memory.
Uninitialised ==
    {[mMapAddr |-> NULL, mMapAlignmentBytes |-> 0, mMapSize |-> 0],
     [mMapAddr |-> SlotAddr(1), mMapAlignmentBytes |-> 0, mMapSize |-> 1]}

\* the value a driver return value has once stored in a C2Error
RawC2Error(ret) ==
    CASE ret = 0 -> "C2_OK"
      [] ret = -EINVAL -> "(C2Error)-EINVAL"
      [] ret = -ENOMEM -> "(C2Error)-ENOMEM"
      [] ret = -ENODEV -> "(C2Error)-ENODEV"

\* C2AllocationIon(ionFd, size, align, heapMask, flags) with its Impl:
\* the objects the constructor can produce
ImplAlloc(refs, ionFd, capacity) ==
    {[kind |-> "ion",
      mInit |-> IF o.ret = 0 THEN "C2_OK"
                ELSE c2_map_errno(<<ENOMEM, EACCES, EINVAL>>, -o.ret),
      mHandle |-> C2HandleIon(ionFd, o.buffer),
      mMapFd |-> NoFd,
      mMapAddr |-> u.mMapAddr,
      mMapAlignmentBytes |-> u.mMapAlignmentBytes,
      mMapSize |-> u.mMapSize,
      mCapacity |-> capacity,
      capacity |-> capacity,
      held |-> TRUE]
     : o \in ion_alloc(refs, capacity), u \in Uninitialised}

\* C2AllocationIon(ionFd, size, shareFd) with its Impl
ImplImport(fdt, ionFd, capacity, shareFd) ==
    {[kind |-> "ion",
      mInit |-> RawC2Error(o.ret),
      mHandle |-> C2HandleIon(ionFd, o.buffer),
      mMapFd |-> NoFd,
      mMapAddr |-> u.mMapAddr,
      mMapAlignmentBytes |-> u.mMapAlignmentBytes,
      mMapSize |-> u.mMapSize,
      mCapacity |-> capacity,
      capacity |-> capacity,
      held |-> TRUE]
     : o \in ion_import(fdt, shareFd), u \in Uninitialised}

\* the start of the mapping is handed out in place of the byte asked for
MappedAddr_Base(base, alignmentBytes) == base

\* *addr = (uint8_t *)mMapAddr + alignmentBytes: the address of the byte at
\* offset, alignmentBytes into the mapping that starts at the page boundary
MappedAddr(base, alignmentBytes) == base + alignmentBytes

\* C2AllocationIon::Impl::map on the object rec (allocation a): the outcomes
ImplMap(rec, a, fdt, pg, offset, size, usage) ==
    LET prot == (IF kSoftwareRead \in usage.mConsumer THEN {"PROT_READ"} ELSE {})
                \cup (IF kSoftwareWrite \in usage.mProducer THEN {"PROT_WRITE"} ELSE {})
        flags == IF kSoftwareWrite \in usage.mProducer THEN "MAP_SHARED" ELSE "MAP_PRIVATE"
        alignmentBytes == offset % PAGE_SIZE
        mapOffset == offset - alignmentBytes
        mapSize == size + alignmentBytes
    IN  IF rec.mMapFd = NoFd
        THEN {IF o.ret # 0
              THEN [err |-> c2_map_errno(<<EINVAL>>, -o.ret), addr |-> NULL,
                    rec |-> [rec EXCEPT !.mMapFd = NoFd],
                    fds |-> o.fds, pages |-> o.pages]
              ELSE [err |-> "C2_OK", addr |-> MappedAddr(o.ptr, alignmentBytes),
                    rec |-> [rec EXCEPT !.mMapFd = o.fd, !.mMapAddr = o.ptr,
                                        !.mMapAlignmentBytes = alignmentBytes,
                                        !.mMapSize = mapSize],
                    fds |-> o.fds, pages |-> o.pages]
              : o \in ion_map(fdt, pg, rec.mHandle.mBuffer, mapSize, prot, flags, mapOffset, a)}
        ELSE {IF m.errno # 0
              THEN [err |-> c2_map_errno(<<EINVAL>>, m.errno), addr |-> NULL,
                    rec |-> [rec EXCEPT !.mMapAddr = NULL],
                    fds |-> fdt, pages |-> m.pages]
              ELSE [err |-> "C2_OK", addr |-> MappedAddr(m.addr, alignmentBytes),
                    rec |-> [rec EXCEPT !.mMapAddr = m.addr,
                                        !.mMapAlignmentBytes = alignmentBytes,
                                        !.mMapSize = mapSize],
                    fds |-> fdt, pages |-> m.pages]
              : m \in mmap(pg, mapSize, prot, flags, fdt[rec.mMapFd], mapOffset, a)}

\* unmap, were the size not compared
ImplUnmap_AddrOnly(rec, pg, addr, size) ==
    IF addr # rec.mMapAddr + rec.mMapAlignmentBytes
    THEN [err |-> "C2_BAD_VALUE", pages |-> pg, munmap |-> FALSE]
    ELSE LET u == munmap(pg, rec.mMapAddr, rec.mMapSize)
         IN  IF u.ret # 0
             THEN [err |-> c2_map_errno(<<EINVAL>>, u.errno), pages |-> pg, munmap |-> FALSE]
             ELSE [err |-> "C2_OK", pages |-> u.pages, munmap |-> TRUE]

\* addr and size are compared with the mapping, the padding left out
ImplUnmap_NoPadding(rec, pg, addr, size) ==
    IF addr # rec.mMapAddr \/ size # rec.mMapSize
    THEN [err |-> "C2_BAD_VALUE", pages |-> pg, munmap |-> FALSE]
    ELSE LET u == munmap(pg, rec.mMapAddr, rec.mMapSize)
         IN  IF u.ret # 0
             THEN [err |-> c2_map_errno(<<EINVAL>>, u.errno), pages |-> pg, munmap |-> FALSE]
             ELSE [err |-> "C2_OK", pages |-> u.pages, munmap |-> TRUE]

\* C2AllocationIon::Impl::unmap on the object rec: the result
ImplUnmap(rec, pg, addr, size) ==
    IF addr # rec.mMapAddr + rec.mMapAlignmentBytes
       \/ size + rec.mMapAlignmentBytes # rec.mMapSize
    THEN [err |-> "C2_BAD_VALUE", pages |-> pg, munmap |-> FALSE]
    ELSE LET u == munmap(pg, rec.mMapAddr, rec.mMapSize)
         IN  IF u.ret # 0
             THEN [err |-> c2_map_errno(<<EINVAL>>, u.errno), pages |-> pg, munmap |-> FALSE]
             ELSE [err |-> "C2_OK", pages |-> u.pages, munmap |-> TRUE]

\* C2AllocationIon::Impl::~Impl: the kernel state k afterwards
ImplDestroy(rec, k) ==
    LET fds1 == IF rec.mMapFd # NoFd THEN [k.fds EXCEPT ![rec.mMapFd] = FdFree] ELSE k.fds
        refs1 == ion_free(k.ionRefs, rec.mHandle.mBuffer)
    IN  [fds |-> fds1, ionRefs |-> refs1, pages |-> Orphaned(k.pages, refs1)]

\* the shared_ptr count of allocation a
UseCount(al, bl, a) ==
    (IF al[a].held THEN 1 ELSE 0)
    + Cardinality({b \in BlockIds : bl[b] # NoBlock /\ bl[b].alloc = a})

\* std::shared_ptr<C2LinearAllocation>: allocation a is destroyed once no
\* holder is left
Release(al, bl, k, a) ==
    IF al[a] # NoAlloc /\ UseCount(al, bl, a) = 0
    THEN [allocs |-> [al EXCEPT ![a] = NoAlloc], k |-> ImplDestroy(al[a], k)]
    ELSE [allocs |-> al, k |-> k]

Kernel == [fds |-> fds, ionRefs |-> ionRefs, pages |-> pages]

\* the live OS mappings made for allocation a: their slots
Mappings(pg, a) == {s \in Slots : \E k \in 0 .. SlotPages - 1 : pg[<<s, k>>] # NoPage /\ pg[<<s, k>>].by = a}

(* --------------------------- C2AllocatorIon ---------------------------- *)

\* C2AllocatorIon::C2AllocatorIon: ion_open() returns a descriptor, or
\* fails with errno set
OpenErrnos == {ENOENT, EACCES, EINVAL}

\* the constructor, were a failed open tested as mIonFd == 0
AllocatorInit_ZeroTest(fd, errno) ==
    /\ mIonFd = fd
    /\ mInit = IF fd = 0
               THEN IF errno = ENOENT THEN "C2_UNSUPPORTED"
                    ELSE c2_map_errno(<<EACCES>>, errno)
               ELSE "C2_OK"
    /\ fds = [f \in FdNums |-> IF f = fd THEN FdIonDev ELSE FdFree]

AllocatorInit(fd, errno) ==
    /\ mIonFd = fd
    /\ mInit = IF fd < 0
               THEN IF errno = ENOENT THEN "C2_UNSUPPORTED"
                    ELSE c2_map_errno(<<EACCES>>, errno)
               ELSE "C2_OK"
    /\ fds = [f \in FdNums |-> IF f = fd THEN FdIonDev ELSE FdFree]

KernelInit ==
    /\ ionRefs = [h \in HandleIds |-> 0]
    /\ ionLen = [h \in HandleIds |-> 0]
    /\ pages = [p \in PageIds |-> NoPage]
    /\ mem = [h \in HandleIds |-> [i \in 0 .. BufBytes - 1 |-> 0]]

ObjectsInit ==
    /\ allocs = [a \in AllocIds |-> NoAlloc]
    /\ blocks = [b \in BlockIds |-> NoBlock]
    /\ views = {}
    /\ lastCall = [op |-> "none"]

FreeAllocs(al) == {a \in AllocIds : al[a] = NoAlloc}
FreeAlloc(al) == CHOOSE x \in FreeAllocs(al) : \A y \in FreeAllocs(al) : x <= y

\* the client's variable the result is stored in: null, or holding an allocation
OutVars == {0} \cup {a \in AllocIds : allocs[a] # NoAlloc /\ allocs[a].held}

\* the client's variable keeps what it held
ResetOut_Keep(al, bl, k, prev) == [allocs |-> al, k |-> k]

\* *allocation = nullptr: the client's variable lets go of what it held
ResetOut(al, bl, k, prev) ==
    IF prev = 0
    THEN [allocs |-> al, k |-> k]
    ELSE Release([al EXCEPT ![prev].held = FALSE], bl, k, prev)

\* C2AllocatorIon::allocateLinearBuffer(capacity, usage, allocation) in the
\* state (al, bl, k), the variable *allocation holding prev: the outcomes.
\* buf: the buffer the driver made (0: none)
allocateLinearBuffer(al, bl, k, capacity, prev) ==
    LET r == ResetOut(al, bl, k, prev)
    IN  IF mInit # "C2_OK"
        THEN {[ret |-> "C2_UNSUPPORTED", allocation |-> 0, driver |-> {},
               allocs |-> r.allocs, k |-> r.k, buf |-> 0]}
        ELSE IF FreeAllocs(r.allocs) = {}
        THEN {}
        ELSE {LET ret == alloc.mInit
              IN  IF ret = "C2_OK"
                  THEN [ret |-> ret, allocation |-> FreeAlloc(r.allocs),
                        driver |-> {"ion_alloc"},
                        allocs |-> [r.allocs EXCEPT ![FreeAlloc(r.allocs)] = alloc],
                        k |-> [r.k EXCEPT !.ionRefs[alloc.mHandle.mBuffer] = 1],
                        buf |-> alloc.mHandle.mBuffer]
                  ELSE [ret |-> ret, allocation |-> 0, driver |-> {"ion_alloc"},
                        allocs |-> r.allocs, k |-> r.k, buf |-> 0]
              : alloc \in ImplAlloc(r.k.ionRefs, mIonFd, capacity)}

\* the handles a client passes to recreateLinearBuffer
Handles ==
    {NullHandle}
    \cup {C2HandleIon(mIonFd, b) : b \in HandleIds}
    \cup {[C2HandleIon(mIonFd, 1) EXCEPT !.mMagic = kMagic + 1]}
    \cup {[C2HandleIon(mIonFd, 1) EXCEPT !.header.numFds = HandleNumFds + 1]}
    \cup {[C2HandleIon(mIonFd, 1) EXCEPT !.header.numInts = HandleNumInts + 1]}
    \cup {[C2HandleIon(mIonFd, 1) EXCEPT !.header.version = HandleVersion + 4]}

\* C2AllocatorIon::recreateLinearBuffer(handle, allocation): the outcomes
recreateLinearBuffer(al, bl, k, handle, prev) ==
    LET r == ResetOut(al, bl, k, prev)
    IN  IF mInit # "C2_OK"
        THEN {[ret |-> "C2_UNSUPPORTED", allocation |-> 0, driver |-> {},
               allocs |-> r.allocs, k |-> r.k]}
        ELSE IF ~isValid(handle)
        THEN {[ret |-> "C2_BAD_VALUE", allocation |-> 0, driver |-> {},
               allocs |-> r.allocs, k |-> r.k]}
        ELSE IF FreeAllocs(r.allocs) = {}
        THEN {}
        ELSE {LET ret == alloc.mInit
              IN  IF ret = "C2_OK"
                  THEN [ret |-> ret, allocation |-> FreeAlloc(r.allocs),
                        driver |-> {"ion_import"},
                        allocs |-> [r.allocs EXCEPT ![FreeAlloc(r.allocs)] = alloc],
                        k |-> [r.k EXCEPT !.ionRefs[alloc.mHandle.mBuffer] = @ + 1]]
                  ELSE [ret |-> ret, allocation |-> 0, driver |-> {"ion_import"},
                        allocs |-> r.allocs, k |-> r.k]
              : alloc \in ImplImport(r.k.fds, mIonFd, 0, handle.mBuffer)}

\* the driver made buffer buf of len bytes (buf = 0: it made none)
NewBuffer(buf, len) ==
    IF buf = 0
    THEN UNCHANGED <<ionLen, mem>>
    ELSE /\ ionLen' = [ionLen EXCEPT ![buf] = len]
         /\ mem' = [mem EXCEPT ![buf] = [i \in 0 .. BufBytes - 1 |-> 0]]

\* the client calls allocateLinearBuffer
clientAllocate(capacity, prev) ==
    \E o \in allocateLinearBuffer(allocs, blocks, Kernel, capacity, prev) :
        /\ lastCall' = [op |-> "allocateLinearBuffer", ret |-> o.ret,
                        allocation |-> o.allocation, driver |-> o.driver,
                        prev |-> prev]
        /\ allocs' = o.allocs
        /\ fds' = o.k.fds /\ ionRefs' = o.k.ionRefs /\ pages' = o.k.pages
        /\ NewBuffer(o.buf, capacity)
        /\ UNCHANGED <<mInit, mIonFd, blocks, views>>

\* the client calls recreateLinearBuffer
clientRecreate(handle, prev) ==
    \E o \in recreateLinearBuffer(allocs, blocks, Kernel, handle, prev) :
        /\ lastCall' = [op |-> "recreateLinearBuffer", ret |-> o.ret,
                        allocation |-> o.allocation, driver |-> o.driver,
                        handle |-> handle, prev |-> prev]
        /\ allocs' = o.allocs
        /\ fds' = o.k.fds /\ ionRefs' = o.k.ionRefs /\ pages' = o.k.pages
        /\ UNCHANGED <<mInit, mIonFd, blocks, views, ionLen, mem>>

\* the client lets go of its reference to allocation a
releaseAllocation(a) ==
    /\ allocs[a] # NoAlloc /\ allocs[a].held
    /\ LET r == Release([allocs EXCEPT ![a].held = FALSE], blocks, Kernel, a)
       IN  /\ allocs' = r.allocs
           /\ fds' = r.k.fds /\ ionRefs' = r.k.ionRefs /\ pages' = r.k.pages
    /\ lastCall' = [op |-> "release"]
    /\ UNCHANGED <<mInit, mIonFd, blocks, views, ionLen, mem>>

\* C2AllocationIon::map(offset, size, usage, fence, addr) called by the client
allocationMap(a, offset, size, usage) ==
    /\ allocs[a] # NoAlloc /\ allocs[a].held
    /\ \E r \in ImplMap(allocs[a], a, fds, pages, offset, size, usage) :
         /\ allocs' = [allocs EXCEPT ![a] = r.rec]
         /\ fds' = r.fds
         /\ pages' = r.pages
         /\ lastCall' = [op |-> "map", alloc |-> a, ret |-> r.err, addr |-> r.addr,
                         before |-> Mappings(pages, a)]
    /\ UNCHANGED <<mInit, mIonFd, blocks, views, ionRefs, ionLen, mem>>

\* the addresses a client passes to unmap
Addrs == {NULL} \cup {SlotAddr(s) + i : s \in Slots, i \in 0 .. PAGE_SIZE - 1}

\* C2AllocationIon::unmap(addr, size, fence) called by the client
allocationUnmap(a, addr, size) ==
    /\ allocs[a] # NoAlloc /\ allocs[a].held
    /\ LET r == ImplUnmap(allocs[a], pages, addr, size)
       IN  /\ pages' = r.pages
           /\ lastCall' = [op |-> "unmap", alloc |-> a, addr |-> addr, size |-> size,
                           ret |-> r.err]
    /\ UNCHANGED <<mInit, mIonFd, allocs, blocks, views, fds, ionRefs, ionLen, mem>>

(* ------------------- the allocator and its allocations ----------------- *)

InitAllocator ==
    /\ \/ \E fd \in FdNums : AllocatorInit(fd, 0)
       \/ \E e \in OpenErrnos : AllocatorInit(-1, e)
    /\ KernelInit
    /\ ObjectsInit

AllocateLinearBuffer == \E c \in 0 .. MaxCapacity, prev \in OutVars : clientAllocate(c, prev)
RecreateLinearBuffer == \E h \in Handles, prev \in OutVars : clientRecreate(h, prev)
ReleaseAllocation == \E a \in AllocIds : releaseAllocation(a)
\* the client maps a whole allocation for writing
MapWhole == \E a \in AllocIds : allocationMap(a, 0, allocs[a].capacity, UsageReadWrite)

NextAllocator ==
    \/ AllocateLinearBuffer
    \/ RecreateLinearBuffer
    \/ ReleaseAllocation
    \/ MapWhole

SpecAllocator == InitAllocator /\ [][NextAllocator]_vars

(* -------------------- one allocation, mapped and unmapped -------------- *)

InitAllocation ==
    /\ AllocatorInit(1, 0)
    /\ KernelInit
    /\ ObjectsInit

\* the client allocates when it holds no allocation
AllocateOne ==
    /\ \A a \in AllocIds : allocs[a] = NoAlloc
    /\ \E c \in 0 .. MaxCapacity : clientAllocate(c, 0)
AllocationMap ==
    \E a \in AllocIds, offset \in 0 .. MaxCapacity, size \in 0 .. MaxCapacity,
       usage \in {UsageRead, UsageReadWrite} :
        allocationMap(a, offset, size, usage)
AllocationUnmap ==
    \E a \in AllocIds, addr \in Addrs, size \in 0 .. MaxCapacity : allocationUnmap(a, addr, size)

NextAllocation ==
    \/ AllocateOne
    \/ AllocationMap
    \/ AllocationUnmap
    \/ ReleaseAllocation

SpecAllocation == InitAllocation /\ [][NextAllocation]_vars

(* ------------------------- blocks and views ---------------------------- *)

Min(x, y) == IF x <= y THEN x ELSE y

\* _C2LinearRangeAspect(parent, offset, size): the range, clamped to the
\* capacity of the allocation
RangeAspect(capacity, offset, size) ==
    [offset |-> Min(offset, capacity),
     size |-> Min(size, capacity - Min(offset, capacity))]

\* C2ConstLinearBlock(alloc, offset, size) with its Impl.  Bookkeeping only:
\* acquired (the successful maps of the allocation made for this block),
\* mapCalled (map() was called on it)
ConstLinearBlock(a, offset, size) ==
    LET range == RangeAspect(allocs[a].capacity, offset, size)
    IN  [kind |-> "const", alloc |-> a, capacity |-> allocs[a].capacity,
         offset |-> range.offset, size |-> range.size,
         mBase |-> NULL, mSize |-> 0, mError |-> "C2_CORRUPTED",
         acquired |-> 0, mapCalled |-> FALSE]

\* C2LinearBlock(alloc) with its Impl: the whole allocation
LinearBlock(al, a) ==
    [kind |-> "linear", alloc |-> a, capacity |-> al[a].capacity,
     offset |-> 0, size |-> al[a].capacity,
     mBase |-> NULL, mSize |-> 0, mError |-> "C2_CORRUPTED",
     acquired |-> 0, mapCalled |-> FALSE]

\* C2LinearBlock(alloc, offset, size) with its Impl
LinearBlockRange(al, a, offset, size) ==
    LET range == RangeAspect(al[a].capacity, offset, size)
    IN  [kind |-> "linear", alloc |-> a, capacity |-> al[a].capacity,
         offset |-> range.offset, size |-> range.size,
         mBase |-> NULL, mSize |-> 0, mError |-> "C2_CORRUPTED",
         acquired |-> 0, mapCalled |-> FALSE]

FreeBlocks(bl) == {b \in BlockIds : bl[b] = NoBlock}
FreeBlock(bl) == CHOOSE x \in FreeBlocks(bl) : \A y \in FreeBlocks(bl) : x <= y
\* the client can hold one more view
RoomForView == Cardinality(views) < MaxViews

\* ~C2ConstLinearBlock::Impl and ~C2LinearBlock::Impl of block b, then the
\* block's references to its allocation go: the state afterwards
BlockDestroy(al, bl, k, b) ==
    LET a == bl[b].alloc
        pg == IF bl[b].mBase # NULL
              THEN ImplUnmap(al[a], k.pages, bl[b].mBase, bl[b].mSize).pages
              ELSE k.pages
        bl1 == [bl EXCEPT ![b] = NoBlock]
        r == Release(al, bl1, [k EXCEPT !.pages = pg], a)
    IN  [allocs |-> r.allocs, blocks |-> bl1, k |-> r.k]

\* the views of a block that is gone no longer name it
Forget(vw, b) == {IF v.from = b THEN [v EXCEPT !.from = 0] ELSE v : v \in vw}

\* the client's variable a block is stored in: null, or holding a block
BlockVars == {0} \cup {b \in BlockIds : blocks[b] # NoBlock /\ blocks[b].kind = "linear"}

\* C2DefaultBlockAllocator::allocateLinearBlock(capacity, usage, block), the
\* variable *block holding prev
allocateLinearBlock(capacity, prev) ==
    LET r == IF prev = 0
             THEN [allocs |-> allocs, blocks |-> blocks, k |-> Kernel]
             ELSE BlockDestroy(allocs, blocks, Kernel, prev)
    IN  /\ FreeBlocks(r.blocks) # {}
        /\ \E o \in allocateLinearBuffer(r.allocs, r.blocks, r.k, capacity, 0) :
             LET b == FreeBlock(r.blocks)
             IN  /\ IF o.ret # "C2_OK"
                    THEN /\ allocs' = o.allocs
                         /\ blocks' = r.blocks
                    ELSE \* the block holds the allocation, the local variable lets go
                         /\ allocs' = [o.allocs EXCEPT ![o.allocation].held = FALSE]
                         /\ blocks' = [r.blocks EXCEPT ![b] = LinearBlock(o.allocs, o.allocation)]
                 /\ lastCall' = [op |-> "allocateLinearBlock", ret |-> o.ret,
                                 block |-> IF o.ret = "C2_OK" THEN b ELSE 0,
                                 driver |-> o.driver, prev |-> prev]
                 /\ fds' = o.k.fds /\ ionRefs' = o.k.ionRefs /\ pages' = o.k.pages
                 /\ NewBuffer(o.buf, capacity)
                 /\ views' = IF prev = 0 THEN views ELSE Forget(views, prev)
        /\ UNCHANGED <<mInit, mIonFd>>

\* the client makes a C2LinearBlock(alloc, offset, size) over allocation a,
\* which it holds
newLinearBlock(a, offset, size) ==
    /\ allocs[a] # NoAlloc /\ allocs[a].held
    /\ FreeBlocks(blocks) # {}
    /\ blocks' = [blocks EXCEPT ![FreeBlock(blocks)] = LinearBlockRange(allocs, a, offset, size)]
    /\ lastCall' = [op |-> "C2LinearBlock", block |-> FreeBlock(blocks),
                    offset |-> offset, size |-> size]
    /\ UNCHANGED <<mInit, mIonFd, allocs, views, fds, ionRefs, ionLen, pages, mem>>

\* C2LinearBlock::share(offset, size, fence)
share(b, offset, size) ==
    /\ blocks[b] # NoBlock /\ blocks[b].kind = "linear"
    /\ FreeBlocks(blocks) # {}
    /\ blocks' = [blocks EXCEPT ![FreeBlock(blocks)] =
                    ConstLinearBlock(blocks[b].alloc, offset, size)]
    /\ lastCall' = [op |-> "share", parent |-> b, block |-> FreeBlock(blocks),
                    offset |-> offset, size |-> size]
    /\ UNCHANGED <<mInit, mIonFd, allocs, views, fds, ionRefs, ionLen, pages, mem>>

\* C2ConstLinearBlock::subBlock(offset, size)
subBlock(b, offset, size) ==
    /\ blocks[b] # NoBlock /\ blocks[b].kind = "const"
    /\ FreeBlocks(blocks) # {}
    /\ blocks' = [blocks EXCEPT ![FreeBlock(blocks)] =
                    ConstLinearBlock(blocks[b].alloc, offset, size)]
    /\ lastCall' = [op |-> "subBlock", parent |-> b, block |-> FreeBlock(blocks),
                    offset |-> offset, size |-> size]
    /\ UNCHANGED <<mInit, mIonFd, allocs, views, fds, ionRefs, ionLen, pages, mem>>

\* the allocation is mapped again on every call, mapped or not
BlockImplMap_Remap(blk, offset, size, usage) ==
    {[blk |-> IF r.err = "C2_OK"
              THEN [blk EXCEPT !.mError = r.err, !.mBase = r.addr, !.mSize = size,
                               !.acquired = @ + 1, !.mapCalled = TRUE]
              ELSE [blk EXCEPT !.mError = r.err, !.mapCalled = TRUE],
      rec |-> r.rec, fds |-> r.fds, pages |-> r.pages]
     : r \in ImplMap(allocs[blk.alloc], blk.alloc, fds, pages, offset, size, usage)}

\* the error of a failed map of the allocation is not stored in the block
BlockImplMap_DropError(blk, offset, size, usage) ==
    IF blk.mBase = NULL
    THEN {[blk |-> IF r.err = "C2_OK"
                   THEN [blk EXCEPT !.mError = r.err, !.mBase = r.addr, !.mSize = size,
                                    !.acquired = @ + 1, !.mapCalled = TRUE]
                   ELSE [blk EXCEPT !.mapCalled = TRUE],
           rec |-> r.rec, fds |-> r.fds, pages |-> r.pages]
          : r \in ImplMap(allocs[blk.alloc], blk.alloc, fds, pages, offset, size, usage)}
    ELSE {[blk |-> [blk EXCEPT !.mapCalled = TRUE],
           rec |-> allocs[blk.alloc], fds |-> fds, pages |-> pages]}

\* C2ConstLinearBlock::Impl::map(offset, size) and C2LinearBlock::Impl::map(capacity)
\* on block blk: the outcomes (the block and its allocation afterwards)
BlockImplMap(blk, offset, size, usage) ==
    IF blk.mBase = NULL
    THEN {[blk |-> IF r.err = "C2_OK"
                   THEN [blk EXCEPT !.mError = r.err, !.mBase = r.addr, !.mSize = size,
                                    !.acquired = @ + 1, !.mapCalled = TRUE]
                   ELSE [blk EXCEPT !.mError = r.err, !.mapCalled = TRUE],
           rec |-> r.rec, fds |-> r.fds, pages |-> r.pages]
          : r \in ImplMap(allocs[blk.alloc], blk.alloc, fds, pages, offset, size, usage)}
    ELSE {[blk |-> [blk EXCEPT !.mapCalled = TRUE],
           rec |-> allocs[blk.alloc], fds |-> fds, pages |-> pages]}

\* C2ReadView(parent, data), C2ReadView(error) inside a C2Acquirable
\* Bookkeeping only: from (the block whose map() made the view), prior (what
\* the map() before it on that block returned, if there was one: the set of
\* that pointer, or the empty set)
ReadView(capacity, data, error, acqError, from, prior) ==
    [kind |-> "read", ptr |-> data, offset |-> 0, size |-> capacity, capacity |-> capacity,
     error |-> error, acqError |-> acqError, from |-> from, prior |-> prior]

\* C2WriteView(parent, base), C2WriteView(error) inside a C2Acquirable
WriteView(capacity, offset, size, base, error, acqError, from, prior) ==
    [kind |-> "write", ptr |-> base, offset |-> offset, size |-> size, capacity |-> capacity,
     error |-> error, acqError |-> acqError, from |-> from, prior |-> prior]

Prior(blk) == IF blk.mapCalled THEN {blk.mBase} ELSE {}

\* C2ConstLinearBlock::map()
constMap(b) ==
    /\ blocks[b] # NoBlock /\ blocks[b].kind = "const"
    /\ RoomForView
    /\ \E o \in BlockImplMap(blocks[b], blocks[b].offset, blocks[b].size, UsageRead) :
         /\ blocks' = [blocks EXCEPT ![b] = o.blk]
         /\ allocs' = [allocs EXCEPT ![blocks[b].alloc] = o.rec]
         /\ fds' = o.fds
         /\ pages' = o.pages
         /\ views' = views \cup
                {IF o.blk.mBase = NULL
                 THEN ReadView(0, NULL, o.blk.mError, o.blk.mError, b, Prior(blocks[b]))
                 ELSE ReadView(o.blk.size, o.blk.mBase, "C2_OK", o.blk.mError, b,
                               Prior(blocks[b]))}
    /\ UNCHANGED <<mInit, mIonFd, ionRefs, ionLen, mem, lastCall>>

\* C2LinearBlock::map()
linearMap(b) ==
    /\ blocks[b] # NoBlock /\ blocks[b].kind = "linear"
    /\ RoomForView
    /\ \E o \in BlockImplMap(blocks[b], 0, blocks[b].capacity, UsageReadWrite) :
         /\ blocks' = [blocks EXCEPT ![b] = o.blk]
         /\ allocs' = [allocs EXCEPT ![blocks[b].alloc] = o.rec]
         /\ fds' = o.fds
         /\ pages' = o.pages
         /\ views' = views \cup
                {IF o.blk.mBase = NULL
                 THEN WriteView(0, 0, 0, NULL, o.blk.mError, o.blk.mError, b, Prior(blocks[b]))
                 ELSE WriteView(o.blk.capacity, o.blk.offset, o.blk.size, o.blk.mBase,
                                "C2_OK", o.blk.mError, b, Prior(blocks[b]))}
    /\ UNCHANGED <<mInit, mIonFd, ionRefs, ionLen, mem, lastCall>>

\* the last copy of block b goes out of scope
destroyBlock(b) ==
    /\ blocks[b] # NoBlock
    /\ LET r == BlockDestroy(allocs, blocks, Kernel, b)
       IN  /\ allocs' = r.allocs
           /\ blocks' = r.blocks
           /\ fds' = r.k.fds /\ ionRefs' = r.k.ionRefs /\ pages' = r.k.pages
    /\ views' = Forget(views, b)
    /\ lastCall' = [op |-> "destroyBlock", offset |-> blocks[b].offset,
                    unmap |-> IF blocks[b].mBase # NULL
                              THEN ImplUnmap(allocs[blocks[b].alloc], pages,
                                             blocks[b].mBase, blocks[b].mSize).err
                              ELSE "none"]
    /\ UNCHANGED <<mInit, mIonFd, ionLen, mem>>

\* view v goes out of scope
destroyView(v) ==
    /\ v \in views
    /\ views' = views \ {v}
    /\ lastCall' = [op |-> "none"]
    /\ UNCHANGED <<mInit, mIonFd, allocs, blocks, fds, ionRefs, ionLen, pages, mem>>

\* offset and size are used as given
SubViewOf_NoClamp(v, offset, size) ==
    ReadView(size, v.ptr + offset, "C2_OK", v.acqError, v.from, v.prior)

\* C2ReadView::subView(offset, size) of view v: the view returned
SubViewOf(v, offset, size) ==
    LET off == IF offset > v.capacity THEN v.capacity ELSE offset
        sz == IF size > v.capacity - off THEN v.capacity - off ELSE size
    IN  ReadView(sz, v.ptr + off, "C2_OK", v.acqError, v.from, v.prior)

\* the client takes a sub-view of read view v and keeps it in place of v
subView(v, offset, size) ==
    /\ v \in views /\ v.kind = "read"
    /\ views' = (views \ {v}) \cup {SubViewOf(v, offset, size)}
    /\ lastCall' = [op |-> "subView", parent |-> v, offset |-> offset, size |-> size,
                    view |-> SubViewOf(v, offset, size)]
    /\ UNCHANGED <<mInit, mIonFd, allocs, blocks, fds, ionRefs, ionLen, pages, mem>>

\* the view's base pointer is returned
data_Base(v) == v.ptr

\* C2WriteView::data(): base() + offset()
data(v) == v.ptr + v.offset

\* what an address refers to: the byte pos of buffer buf, if its page is mapped
Target(pg, addr) ==
    LET p == PageOf(addr)
    IN  IF p \in PageIds /\ pg[p] # NoPage
        THEN [mapped |-> TRUE, buf |-> pg[p].buf, pos |-> pg[p].pos + (addr % PAGE_SIZE),
              prot |-> pg[p].prot, flags |-> pg[p].flags]
        ELSE [mapped |-> FALSE]

\* the byte at a mapped address
Byte(addr) == mem[Target(pages, addr).buf][Target(pages, addr).pos]

\* the byte the client writes at index i of a block
Pattern(i) == i + 1

\* the client stores Pattern(i) at data()[i] of write view v
writeByte(v, i) ==
    /\ v \in views /\ v.kind = "write" /\ v.ptr # NULL
    /\ i < v.size
    /\ LET t == Target(pages, data(v) + i)
       IN  /\ t.mapped /\ "PROT_WRITE" \in t.prot /\ t.flags = "MAP_SHARED"
           /\ t.buf \in HandleIds
           /\ mem' = [mem EXCEPT ![t.buf][t.pos] = Pattern(i)]
    /\ lastCall' = [op |-> "none"]
    /\ UNCHANGED <<mInit, mIonFd, allocs, blocks, views, fds, ionRefs, ionLen, pages>>

(* ------------------------ blocks over allocations ---------------------- *)

\* the client asks for a block until the driver has made a buffer
AllocateLinearBlock ==
    /\ \A h \in HandleIds : ionLen[h] = 0
    /\ \E c \in 0 .. MaxCapacity, prev \in BlockVars : allocateLinearBlock(c, prev)
\* the ranges a client asks for: within the capacity of the block
Ranges(b) ==
    IF blocks[b] = NoBlock THEN {}
    ELSE {r \in (0 .. MaxCapacity) \X (0 .. MaxCapacity) : r[1] + r[2] <= blocks[b].capacity}
\* the client makes blocks while it holds no view
Share == views = {} /\ \E b \in BlockIds : \E r \in Ranges(b) : share(b, r[1], r[2])
SubBlock == views = {} /\ \E b \in BlockIds : \E r \in Ranges(b) : subBlock(b, r[1], r[2])
ConstMap == \E b \in BlockIds : constMap(b)
LinearMap == \E b \in BlockIds : linearMap(b)
DestroyBlock == \E b \in BlockIds : destroyBlock(b)
DestroyView == \E v \in views : destroyView(v)
WriteByte == \E v \in views, i \in 0 .. MaxCapacity - 1 : writeByte(v, i)

Next ==
    \/ AllocateLinearBlock
    \/ Share
    \/ SubBlock
    \/ ConstMap
    \/ LinearMap
    \/ DestroyBlock
    \/ DestroyView

Spec == InitAllocation /\ [][Next]_vars

\* the same, the client also writing through its write views
NextData == Next \/ WriteByte

SpecData == InitAllocation /\ [][NextData]_vars

(* ---------------- the calls that store an object for the caller -------- *)

AllocateBlock == \E c \in 0 .. MaxCapacity, prev \in BlockVars : allocateLinearBlock(c, prev)

NextOutputs ==
    \/ AllocateLinearBuffer
    \/ RecreateLinearBuffer
    \/ ReleaseAllocation
    \/ MapWhole
    \/ AllocateBlock
    \/ DestroyBlock

\* a working or a broken allocator, used directly and through the block allocator
SpecOutputs == InitAllocator /\ [][NextOutputs]_vars

(* ------------------ mutable blocks with a range of their own ----------- *)

NewLinearBlock ==
    \E a \in AllocIds, offset \in 0 .. MaxCapacity, size \in 0 .. MaxCapacity :
        newLinearBlock(a, offset, size)

NextLinear ==
    \/ AllocateOne
    \/ NewLinearBlock
    \/ LinearMap
    \/ DestroyBlock
    \/ DestroyView
    \/ ReleaseAllocation

SpecLinear == InitAllocation /\ [][NextLinear]_vars

(* ------------------------- sub-views of read views --------------------- *)

SubView ==
    \E v \in views, offset \in 0 .. MaxCapacity + 1, size \in 0 .. MaxCapacity + 1 :
        subView(v, offset, size)

NextViews ==
    \/ AllocateLinearBlock
    \/ Share
    \/ ConstMap
    \/ DestroyBlock
    \/ DestroyView
    \/ SubView

SpecViews == InitAllocation /\ [][NextViews]_vars

(* ------------------- one mapped block per allocation ------------------- *)

\* block b is the only block that maps its allocation: no other block of
\* the allocation has called map(), and no block that is gone has mapped it
OnlyMapper(b) ==
    /\ blocks[b] # NoBlock
    /\ \A c \in BlockIds \ {b} :
          IF blocks[c] = NoBlock THEN TRUE
          ELSE IF blocks[c].alloc # blocks[b].alloc THEN TRUE
          ELSE ~blocks[c].mapCalled
    /\ IF blocks[b].mapCalled THEN TRUE ELSE allocs[blocks[b].alloc].mMapFd = NoFd

MapOnlyBlock == \E b \in BlockIds : OnlyMapper(b) /\ (constMap(b) \/ linearMap(b))

NextOneBlock ==
    \/ AllocateLinearBlock
    \/ Share
    \/ SubBlock
    \/ MapOnlyBlock
    \/ DestroyBlock
    \/ DestroyView

SpecOneBlock == InitAllocation /\ [][NextOneBlock]_vars

(* ------------------------- the errno translation ----------------------- *)

\* the errno values _c2_errno2error_impl is specialised for
TableEntries == {0, EINVAL, EACCES, EPERM, ENOMEM}
\* the tables c2_map_errno can be instantiated with
ErrnoTables == UNION {[1 .. n -> TableEntries] : n \in 0 .. MaxTable}
\* the values passed as result: errno values, 0, and a negative value
ErrnoResults == {-EINVAL, 0, EPERM, ENOENT, ENOMEM, EACCES, ENODEV, EINVAL}

\* a call c2_map_errno<table>(result) about to be made
InitErrno ==
    /\ AllocatorInit(1, 0)
    /\ KernelInit
    /\ allocs = [a \in AllocIds |-> NoAlloc]
    /\ blocks = [b \in BlockIds |-> NoBlock]
    /\ views = {}
    /\ \E t \in ErrnoTables, r \in ErrnoResults :
          lastCall = [op |-> "c2_map_errno", table |-> t, result |-> r, ret |-> "none"]

\* the call returns
mapErrno ==
    /\ lastCall.op = "c2_map_errno" /\ lastCall.ret = "none"
    /\ lastCall' = [lastCall EXCEPT !.ret = c2_map_errno(lastCall.table, lastCall.result)]
    /\ UNCHANGED <<mInit, mIonFd, allocs, blocks, views, fds, ionRefs, ionLen, pages, mem>>

SpecErrno == InitErrno /\ [][mapErrno]_vars

(* ------------------------------ claims --------------------------------- *)

LiveAllocs == {a \in AllocIds : allocs[a] # NoAlloc}

\* C1: an allocator whose open of the driver failed (any errno) stays
\* broken: every allocateLinearBuffer and recreateLinearBuffer returns
\* C2_UNSUPPORTED, stores null and calls no driver function, so that no
\* allocation and no driver buffer ever exists.
C1_BrokenAllocatorStaysUnsupported ==
    mIonFd < 0 =>
        /\ mInit # "C2_OK"
        /\ lastCall.op \in {"allocateLinearBuffer", "recreateLinearBuffer"} =>
              /\ lastCall.ret = "C2_UNSUPPORTED"
              /\ lastCall.allocation = 0
              /\ lastCall.driver = {}
        /\ LiveAllocs = {}
        /\ \A h \in HandleIds : ionRefs[h] = 0

\* C1 witness: open failed with an errno other than ENOENT and
\* recreateLinearBuffer was called with an invalid handle
C1_Witness ==
    /\ mIonFd < 0
    /\ mInit = "C2_NO_PERMISSION"
    /\ lastCall.op = "recreateLinearBuffer"
    /\ ~isValid(lastCall.handle)

\* C2: an allocation has at most one live OS mapping, and a map call made
\* while a mapping is live is a no-op: it returns an address of the existing
\* mapping and the live mappings are the ones there were before.
C2_AtMostOneLiveMapping ==
    /\ \A a \in LiveAllocs : Cardinality(Mappings(pages, a)) <= 1
    /\ (lastCall.op = "map" /\ lastCall.before # {}) =>
          /\ Mappings(pages, lastCall.alloc) = lastCall.before
          /\ (lastCall.addr \div Stride) \in lastCall.before

\* C5: unmap(addr, size) with addr other than the recorded address plus the
\* alignment padding, or size plus the padding other than the recorded
\* length, returns C2_BAD_VALUE, releases no page and leaves the allocation
\* object as it was.
C5_UnmapMismatchIsBadValue ==
    [][(/\ lastCall'.op = "unmap"
        /\ LET rec == allocs[lastCall'.alloc]
           IN  \/ lastCall'.addr # rec.mMapAddr + rec.mMapAlignmentBytes
               \/ lastCall'.size + rec.mMapAlignmentBytes # rec.mMapSize)
       => /\ lastCall'.ret = "C2_BAD_VALUE"
          /\ pages' = pages
          /\ allocs' = allocs]_vars

\* C5 witness: a mapping is live, unmap was called with its address and a
\* wrong size, and C2_BAD_VALUE came back
C5_Witness ==
    /\ lastCall.op = "unmap"
    /\ lastCall.ret = "C2_BAD_VALUE"
    /\ Mappings(pages, lastCall.alloc) # {}
    /\ LET rec == allocs[lastCall.alloc]
       IN  /\ lastCall.addr = rec.mMapAddr + rec.mMapAlignmentBytes
           /\ lastCall.size + rec.mMapAlignmentBytes # rec.mMapSize

\* C6: after an unmap(addr, size) that returned C2_OK, on an allocation that
\* was mapped, the allocation records no mapping: the same unmap(addr, size)
\* made again does not call munmap and does not return C2_OK.
C6_UnmapClearsMappingState ==
    (lastCall.op = "unmap" /\ lastCall.ret = "C2_OK" /\ allocs[lastCall.alloc].mMapFd # NoFd) =>
        LET again == ImplUnmap(allocs[lastCall.alloc], pages, lastCall.addr, lastCall.size)
        IN  again.err # "C2_OK" /\ ~again.munmap

\* C9: recreateLinearBuffer(A.handle()) for an allocation A made by
\* allocateLinearBuffer (capacity c > 0), when it succeeds, yields an
\* allocation of the same buffer, of capacity c, with the same handle.
C9_RecreateKeepsIdentityAndCapacity ==
    \A a \in LiveAllocs :
        (/\ lastCall.op = "recreateLinearBuffer"
         /\ lastCall.ret = "C2_OK"
         /\ lastCall.allocation # a
         /\ allocs[a].mCapacity > 0
         /\ lastCall.handle = allocs[a].mHandle)
        => LET r == allocs[lastCall.allocation]
           IN  /\ r.mHandle.mBuffer = allocs[a].mHandle.mBuffer
               /\ r.capacity = allocs[a].capacity
               /\ r.mHandle = allocs[a].mHandle

\* C3 as stated: a map() on a block on which map() was called before
\* returns the address the call before it returned, and at most one OS
\* mapping is acquired for a block.
C3_SecondMapReturnsSameAddress ==
    /\ \A v \in views : \A before \in v.prior : v.ptr = before
    /\ \A b \in BlockIds : blocks[b] # NoBlock => blocks[b].acquired <= 1

\* C3 amended: once a map() on a block has succeeded, every later map() on
\* it returns the same base address with error Ok, and at most one OS
\* mapping is acquired for a block.
C3_MapAfterSuccessReturnsSameAddress ==
    /\ \A v \in views :
          \A before \in v.prior :
              before # NULL => (v.ptr = before /\ v.error = "C2_OK")
    /\ \A b \in BlockIds : blocks[b] # NoBlock => blocks[b].acquired <= 1

\* C3 witness: map() was called on a block that a map() before had mapped
C3_Witness ==
    \E v \in views : v.prior # {} /\ v.prior # {NULL} /\ v.from # 0

\* C4: once an allocation is destroyed no page mapped through it is left
\* mapped: every successful OS mapping was unmapped.
C4_NoMappingOutlivesAllocation ==
    \A p \in PageIds : pages[p] # NoPage => pages[p].buf # Orphan

\* C7: for a const block B of range (bo, bs) and offset + size <= bs, the
\* read view that B.subBlock(offset, size).map() yields has data() at
\* allocation byte bo + offset and capacity size.
C7_SubBlockIsRelativeToParent ==
    \A v \in views :
        (/\ lastCall.op = "subBlock"
         /\ v.from = lastCall.block
         /\ v.ptr # NULL
         /\ lastCall.offset + lastCall.size <= blocks[lastCall.parent].size)
        => /\ Target(pages, v.ptr).pos = blocks[lastCall.parent].offset + lastCall.offset
           /\ v.capacity = lastCall.size

\* the bytes 0 .. size of read view v are the bytes the writer stored at
\* data()[offset .. offset + size) (0: a byte it has not stored)
SeesWritten(v, offset, size) ==
    \A i \in 0 .. size - 1 :
        /\ Target(pages, v.ptr + i).mapped
        /\ Byte(v.ptr + i) \in {0, Pattern(offset + i)}

\* C8 as stated: map() of a mutable block from the allocator returns a write
\* view with error Ok and non-null data(); share(offset, size) then yields a
\* const block whose map() returns a read view with error Ok, capacity size
\* and the bytes written.
C8_ShareSeesWrittenBytes ==
    \A v \in views :
        /\ v.kind = "write" => (v.error = "C2_OK" /\ v.ptr # NULL)
        /\ (v.kind = "read" /\ lastCall.op = "share" /\ v.from = lastCall.block)
           => /\ v.error = "C2_OK"
              /\ v.capacity = lastCall.size
              /\ SeesWritten(v, lastCall.offset, lastCall.size)

\* C8 amended: the same, for the map() calls whose OS mapping succeeded; a
\* map() whose OS mapping failed returns a view with that error and no pointer.
C8_ShareSeesWrittenBytesWhenMapped ==
    \A v \in views :
        /\ v.error # "C2_OK" <=> v.ptr = NULL
        /\ (v.kind = "write" /\ v.error = "C2_OK" /\ v.from # 0)
           => /\ v.acqError = "C2_OK"
              /\ \A i \in 0 .. v.size - 1 :
                    /\ Target(pages, v.ptr + v.offset + i).mapped
                    /\ Target(pages, v.ptr + v.offset + i).pos = i
                    /\ "PROT_WRITE" \in Target(pages, v.ptr + v.offset + i).prot
        /\ (v.kind = "read" /\ lastCall.op = "share" /\ v.from = lastCall.block
            /\ v.error = "C2_OK")
           => /\ v.acqError = "C2_OK"
              /\ v.capacity = lastCall.size
              /\ SeesWritten(v, lastCall.offset, lastCall.size)

\* C8 witness: the read view of a block shared at an offset inside a page
\* shows a byte the writer stored
C8_Witness ==
    \E v \in views :
        /\ v.kind = "read" /\ lastCall.op = "share" /\ v.from = lastCall.block
        /\ v.error = "C2_OK"
        /\ lastCall.offset % PAGE_SIZE # 0
        /\ lastCall.size > 0
        /\ Byte(v.ptr) = Pattern(lastCall.offset)

\* C10: the mapping a view points into is live for as long as the view
\* exists, also once the block that made the view is gone.
C10_ViewKeepsMappingAlive ==
    \A v \in views : v.ptr # NULL => Target(pages, v.ptr).mapped

\* C11: on a working allocator every result of recreateLinearBuffer is one
\* of the C2Error values, whatever ion_import returned: a failing import is
\* not returned as the driver's raw return value.
C11_RecreateResultIsC2Error ==
    (lastCall.op = "recreateLinearBuffer" /\ mInit = "C2_OK") => lastCall.ret \in C2Errors

\* the handle is non-null, its three header fields are those of an ION
\* handle and its magic is the ION magic
WellFormed(h) ==
    /\ h # NullHandle
    /\ h.header.version = HandleVersion
    /\ h.header.numFds = HandleNumFds
    /\ h.header.numInts = HandleNumInts
    /\ h.mMagic = kMagic

\* C12: on a working allocator recreateLinearBuffer goes on to the driver's
\* import exactly for the well-formed handles; for every other handle it
\* returns C2_BAD_VALUE, stores null and makes no driver call.
C12_HandleCheckedBeforeImport ==
    (lastCall.op = "recreateLinearBuffer" /\ mInit = "C2_OK") =>
        IF WellFormed(lastCall.handle)
        THEN lastCall.driver = {"ion_import"}
        ELSE /\ lastCall.ret = "C2_BAD_VALUE"
             /\ lastCall.allocation = 0
             /\ lastCall.driver = {}

\* C12 witness: a handle with the ION magic and a wrong header was rejected
C12_Witness ==
    /\ lastCall.op = "recreateLinearBuffer" /\ mInit = "C2_OK"
    /\ lastCall.handle # NullHandle
    /\ lastCall.handle.mMagic = kMagic
    /\ lastCall.handle.header.numInts # HandleNumInts
    /\ lastCall.ret = "C2_BAD_VALUE"

\* C13: allocateLinearBuffer, recreateLinearBuffer and allocateLinearBlock
\* store a non-null object exactly when they return C2_OK.  On failure the
\* caller's variable is null, also when it held an object before the call;
\* on success it holds an allocation of status C2_OK, or a block over such
\* an allocation that spans its whole capacity.
C13_OutputNonNullIffOk ==
    /\ lastCall.op \in {"allocateLinearBuffer", "recreateLinearBuffer"} =>
          /\ lastCall.allocation # 0 <=> lastCall.ret = "C2_OK"
          /\ lastCall.allocation # 0 =>
                /\ allocs[lastCall.allocation] # NoAlloc
                /\ allocs[lastCall.allocation].held
                /\ allocs[lastCall.allocation].mInit = "C2_OK"
          /\ (lastCall.ret # "C2_OK" /\ lastCall.prev # 0) =>
                \/ allocs[lastCall.prev] = NoAlloc
                \/ ~allocs[lastCall.prev].held
    /\ lastCall.op = "allocateLinearBlock" =>
          /\ lastCall.block # 0 <=> lastCall.ret = "C2_OK"
          /\ lastCall.block # 0 =>
                LET blk == blocks[lastCall.block]
                IN  /\ blk # NoBlock
                    /\ blk.kind = "linear"
                    /\ allocs[blk.alloc] # NoAlloc
                    /\ allocs[blk.alloc].mInit = "C2_OK"
                    /\ blk.offset = 0
                    /\ blk.size = allocs[blk.alloc].capacity
          /\ (lastCall.ret # "C2_OK" /\ lastCall.prev # 0) => blocks[lastCall.prev] = NoBlock

\* C13 witness: a call failed whose output variable held an object before
C13_Witness ==
    /\ lastCall.op \in {"allocateLinearBuffer", "recreateLinearBuffer", "allocateLinearBlock"}
    /\ lastCall.ret # "C2_OK"
    /\ lastCall.prev # 0

\* the value is an entry of the table
InTable(table, result) == \E i \in 1 .. Len(table) : table[i] = result

\* C14: c2_map_errno<table>(result) is C2_OK for 0, the fixed error of the
\* errno for an errno of the table (EINVAL: C2_BAD_VALUE, EACCES and EPERM:
\* C2_NO_PERMISSION, ENOMEM: C2_NO_MEMORY), and C2_CORRUPTED for every other
\* nonzero value; so it is C2_OK exactly for 0.
C14_ErrnoTranslation ==
    (lastCall.op = "c2_map_errno" /\ lastCall.ret # "none") =>
        LET table == lastCall.table
            result == lastCall.result
            ret == lastCall.ret
        IN  /\ ret \in C2Errors
            /\ result = 0 => ret = "C2_OK"
            /\ (InTable(table, result) /\ result = EINVAL) => ret = "C2_BAD_VALUE"
            /\ (InTable(table, result) /\ result \in {EACCES, EPERM}) => ret = "C2_NO_PERMISSION"
            /\ (InTable(table, result) /\ result = ENOMEM) => ret = "C2_NO_MEMORY"
            /\ (~InTable(table, result) /\ result # 0) => ret = "C2_CORRUPTED"
            /\ ret = "C2_OK" <=> result = 0

\* C14 witness: an errno that is the last of three entries was translated
C14_Witness ==
    /\ lastCall.op = "c2_map_errno" /\ lastCall.ret = "C2_NO_PERMISSION"
    /\ Len(lastCall.table) = 3
    /\ lastCall.table[3] = EPERM
    /\ lastCall.table[1] # EPERM /\ lastCall.table[2] # EPERM

\* what the map() of block blk asks of its allocation: the outcomes
AllocationMapOf(blk) ==
    IF blk.kind = "const"
    THEN ImplMap(allocs[blk.alloc], blk.alloc, fds, pages, blk.offset, blk.size, UsageRead)
    ELSE ImplMap(allocs[blk.alloc], blk.alloc, fds, pages, 0, blk.capacity, UsageReadWrite)

\* C15: map() of a block always returns a view.  The view has a pointer
\* exactly when its error and the error of the Acquirable are C2_OK; a view
\* without a pointer is returned when the map of the allocation the call
\* made failed, and its error and the Acquirable's error are the error of
\* that map.
C15_MapFailureIsCarriedByTheView ==
    [][\A v \in views' :
          /\ v.ptr # NULL <=> (v.error = "C2_OK" /\ v.acqError = "C2_OK")
          /\ (v \notin views /\ v.from # 0 /\ v.ptr = NULL) =>
                /\ v.error = v.acqError
                /\ blocks[v.from].mBase = NULL
                /\ \E r \in AllocationMapOf(blocks[v.from]) :
                      r.err = v.error /\ r.err # "C2_OK" /\ r.addr = NULL]_vars

\* C15 witness: a map() whose map of the allocation failed returned a view
\* with the error and no pointer
C15_Witness ==
    \E v \in views :
        /\ v.from # 0 /\ v.ptr = NULL
        /\ v.error = "C2_BAD_VALUE" /\ v.acqError = "C2_BAD_VALUE"
        /\ blocks[v.from].mError = "C2_BAD_VALUE"

\* C16: the map() of a mutable block of range (offset, size) over an
\* allocation of capacity c maps the bytes 0 .. c of the allocation, and a
\* write view it returns with a pointer has base() at byte 0 of that
\* mapping, data() at byte offset, and the offset and size of the block.
C16_MutableBlockMapsWholeAllocation ==
    \A v \in views :
        (v.kind = "write" /\ v.ptr # NULL /\ v.from # 0) =>
            LET blk == blocks[v.from]
            IN  /\ v.ptr = blk.mBase
                /\ blk.mSize = allocs[blk.alloc].capacity
                /\ \A i \in 0 .. allocs[blk.alloc].capacity - 1 :
                      /\ Target(pages, v.ptr + i).mapped
                      /\ Target(pages, v.ptr + i).buf = allocs[blk.alloc].mHandle.mBuffer
                      /\ Target(pages, v.ptr + i).pos = i
                /\ v.offset = blk.offset
                /\ v.size = blk.size
                /\ data(v) = v.ptr + blk.offset
                /\ blk.size > 0 => Target(pages, data(v)).pos = blk.offset

\* C16 witness: a block whose range is the last byte of a larger allocation
\* was mapped
C16_Witness ==
    \E v \in views :
        /\ v.kind = "write" /\ v.ptr # NULL /\ v.from # 0
        /\ blocks[v.from].offset > 0
        /\ blocks[v.from].size > 0
        /\ blocks[v.from].offset + blocks[v.from].size = allocs[blocks[v.from].alloc].capacity

\* C17: subView(offset, size) of a read view of capacity c returns a view
\* with data() at the parent's data() + min(offset, c) and capacity
\* min(size, c - min(offset, c)): it ends no later than the parent, is empty
\* at the parent's end for offset > c, and no mapping is made or released.
C17_SubViewIsClampedPointerArithmetic ==
    [][(lastCall'.op = "subView" /\ lastCall' # lastCall) =>
          LET parent == lastCall'.parent
              sub == lastCall'.view
              c == parent.capacity
              offset == lastCall'.offset
              size == lastCall'.size
          IN  /\ sub \in views'
              /\ sub.ptr = parent.ptr + Min(offset, c)
              /\ sub.capacity = Min(size, c - Min(offset, c))
              /\ sub.ptr + sub.capacity <= parent.ptr + c
              /\ offset > c => (sub.capacity = 0 /\ sub.ptr = parent.ptr + c)
              /\ UNCHANGED <<pages, fds, allocs, blocks, ionRefs>>]_vars

\* C17 witness: a sub-view was asked for that starts inside the parent and
\* would reach past its end
C17_Witness ==
    /\ lastCall.op = "subView"
    /\ lastCall.parent.ptr # NULL
    /\ lastCall.offset > 0
    /\ lastCall.offset < lastCall.parent.capacity
    /\ lastCall.offset + lastCall.size > lastCall.parent.capacity

\* C18: a const block is made without a mapping, whatever the state of
\* the block it was made from, and the step makes no OS mapping; the first
\* successful map() of a block makes a mapping of its own, at an address
\* that was not mapped before; the mapping of a const block is readable and
\* not writable, that of a mutable block is readable, writable and shared.
C18_ConstBlockMapsIndependentlyReadOnly ==
    [][\A b \in BlockIds :
          /\ (blocks[b] = NoBlock /\ blocks'[b] # NoBlock /\ blocks'[b].kind = "const") =>
                /\ blocks'[b].mBase = NULL
                /\ pages' = pages
          /\ (/\ blocks[b] # NoBlock /\ blocks'[b] # NoBlock
              /\ blocks[b].mBase = NULL /\ blocks'[b].mBase # NULL) =>
                /\ ~Target(pages, blocks'[b].mBase).mapped
                /\ Target(pages', blocks'[b].mBase).mapped
                /\ IF blocks'[b].kind = "const"
                   THEN Target(pages', blocks'[b].mBase).prot = {"PROT_READ"}
                   ELSE /\ Target(pages', blocks'[b].mBase).prot = {"PROT_READ", "PROT_WRITE"}
                        /\ Target(pages', blocks'[b].mBase).flags = "MAP_SHARED"]_vars

\* C18 witness: share() was called on a mapped writer block and the const
\* block has mapped at another address
C18_Witness ==
    /\ lastCall.op = "share"
    /\ blocks[lastCall.parent] # NoBlock /\ blocks[lastCall.block] # NoBlock
    /\ blocks[lastCall.parent].mBase # NULL
    /\ blocks[lastCall.block].mBase # NULL
    /\ blocks[lastCall.block].acquired = 1
    /\ PageOf(blocks[lastCall.block].mBase) # PageOf(blocks[lastCall.parent].mBase)

\* the pages of the recorded mapping of an allocation
RecordedPages(rec) == {PageOf(rec.mMapAddr + i) : i \in 0 .. rec.mMapSize - 1}

\* C19: with one block ever mapped on an allocation, the map of a block that
\* asks for (offset, size) maps the allocation from offset rounded down to a
\* page boundary, size + offset mod PAGE_SIZE bytes long, and returns the
\* address of the mapping plus offset mod PAGE_SIZE; when the block is
\* destroyed its unmap matches the record, returns C2_OK and releases the
\* pages of that mapping and no other.
C19_SingleBlockMapUnmapRoundTrip ==
    [][\A b \in BlockIds :
          /\ (/\ blocks[b] # NoBlock /\ blocks'[b] # NoBlock
              /\ blocks[b].mBase = NULL /\ blocks'[b].mBase # NULL) =>
                LET blk == blocks'[b]
                    rec == allocs'[blk.alloc]
                    offset == IF blk.kind = "const" THEN blk.offset ELSE 0
                    size == IF blk.kind = "const" THEN blk.size ELSE blk.capacity
                    pad == offset % PAGE_SIZE
                IN  /\ rec.mMapSize = size + pad
                    /\ rec.mMapAlignmentBytes = pad
                    /\ blk.mBase = rec.mMapAddr + pad
                    /\ blk.mSize = size
                    /\ \A i \in 0 .. size + pad - 1 :
                          /\ ~Target(pages, rec.mMapAddr + i).mapped
                          /\ Target(pages', rec.mMapAddr + i).mapped
                          /\ Target(pages', rec.mMapAddr + i).pos = offset - pad + i
          /\ (blocks[b] # NoBlock /\ blocks[b].mBase # NULL /\ lastCall'.op = "destroyBlock"
              /\ blocks'[b] = NoBlock) =>
                LET rec == allocs[blocks[b].alloc]
                IN  /\ lastCall'.unmap = "C2_OK"
                    /\ blocks[b].mBase = rec.mMapAddr + rec.mMapAlignmentBytes
                    /\ blocks[b].mSize + rec.mMapAlignmentBytes = rec.mMapSize
                    /\ \A p \in PageIds :
                          pages'[p] = IF p \in RecordedPages(rec) THEN NoPage ELSE pages[p]]_vars

\* C19 witness: a block whose offset is not a multiple of the page size was
\* mapped, and destroyed with its unmap returning C2_OK
C19_Witness ==
    /\ lastCall.op = "destroyBlock"
    /\ lastCall.unmap = "C2_OK"
    /\ lastCall.offset % PAGE_SIZE # 0

\* the mapping an allocation records: address, padding, length, descriptor
RecordedMapping(rec) ==
    <<rec.mMapAddr, rec.mMapAlignmentBytes, rec.mMapSize, rec.mMapFd>>

\* C20: a map() of a block whose map of the allocation fails leaves the
\* mapping the allocation records unchanged, and every other block of the
\* allocation whose unmap would have returned C2_OK before the failed map
\* still has its unmap return C2_OK after it.
C20_FailedMapKeepsRecordedMapping ==
    [][\A v \in views' :
          (v \notin views /\ v.from # 0 /\ v.ptr = NULL /\ blocks[v.from].mBase = NULL) =>
              LET a == blocks[v.from].alloc
              IN  /\ RecordedMapping(allocs'[a]) = RecordedMapping(allocs[a])
                  /\ \A b \in BlockIds :
                        (/\ blocks[b] # NoBlock /\ b # v.from
                         /\ blocks[b].alloc = a /\ blocks[b].mBase # NULL
                         /\ ImplUnmap(allocs[a], pages, blocks[b].mBase,
                                      blocks[b].mSize).err = "C2_OK") =>
                            ImplUnmap(allocs'[a], pages', blocks'[b].mBase,
                                      blocks'[b].mSize).err = "C2_OK"]_vars

\* C21: every read view with a null data pointer reports an error other
\* than C2_OK, and a view returned by subView reports the error of the view
\* it was taken from, so that the sub-views of a view that map() returned
\* for a failed mapping, to any depth, report that failure.
C21_NullReadViewReportsError ==
    /\ \A v \in views : (v.kind = "read" /\ v.ptr = NULL) => v.error # "C2_OK"
    /\ lastCall.op = "subView" => lastCall.view.error = lastCall.parent.error

====
